---- MODULE Spec2Model ----
(***************************************************************************)
(* Model of d3d9-device-grabber (src/src/lib.rs): get_d3d9_device and      *)
(* get_process_window, with the operating system (EnumWindows,             *)
(* GetWindowThreadProcessId) and the Direct3D 9 runtime (Direct3DCreate9,   *)
(* IDirect3D9::CreateDevice) as the environment.                           *)
(*                                                                         *)
(* One invocation of get_d3d9_device is followed from its entry to its     *)
(* return.  The steps are cut at the foreign calls, so that the calls made *)
(* and their arguments are visible in the state.  Spec follows a single    *)
(* invocation, FairSpec adds that every call returns, RepeatSpec invokes   *)
(* the routine again after it returned, and ConcSpec runs two invocations  *)
(* at once.                                                                *)
(***************************************************************************)
EXTENDS Integers, Sequences, FiniteSets, TLC

(***************************************************************************)
(* Bounds of the model.                                                    *)
(***************************************************************************)
\* at most this many top-level windows are enumerated
MaxWindows == 3
\* process identifiers are 1..MaxPid (0 is what wnd_proc_id keeps when the
\* owner of a window cannot be resolved)
MaxPid == 2
\* the runtime hands out device pointers 1..MaxDevice
MaxDevice == 2
\* get_d3d9_device is invoked at most this many times, one after the other
MaxInvocations == 2

(***************************************************************************)
(* Program constants (winapi values used by lib.rs).                       *)
(***************************************************************************)
Null == 0
WIN_FALSE == 0
WIN_TRUE == 1
D3DSWAPEFFECT_DISCARD == 1
D3DADAPTER_DEFAULT == 0
D3DDEVTYPE_HAL == 1
D3DCREATE_SOFTWARE_VERTEXPROCESSING == 32

(***************************************************************************)
(* The environment's value sets.                                           *)
(***************************************************************************)
Pids == 0..MaxPid
\* the i-th enumerated window has the (non-null) handle i
Handles == 1..MaxWindows
WindowLists == UNION {[1..n -> Pids] : n \in 0..MaxWindows}
DevicePtrs == 0..MaxDevice
\* result codes: D3D_OK, and 0x8876086C, 0x88760868 as the i32 the binding
\* returns
D3D_OK == 0
FailCodes == {-2005530516, -2005530520}
FactoryPtrs == {Null, 1}

VARIABLES
    pc,             \* position of get_d3d9_device
    curPid,         \* GetCurrentProcessId()
    wins,           \* owner pid of each top-level window, in enumeration order
    idx,            \* EnumWindows: index of the next window to hand out
    cont,           \* EnumWindows: last value returned by the callback
    hwnd,           \* get_process_window: the local the callback writes
    cbCalls,        \* history: handles the callback was invoked with
    window,         \* get_d3d9_device: the resolved window
    d3d9,           \* get_d3d9_device: factory pointer
    factoryCalls,   \* history: number of Direct3DCreate9 calls
    present_params, \* get_d3d9_device: D3DPRESENT_PARAMETERS
    d3d9_device,    \* get_d3d9_device: memory of the device pointer local
    calls,          \* history: the CreateDevice calls made
    result,         \* value returned by get_d3d9_device
    invocation,     \* number of the invocation under way
    passed,         \* invocations that returned after factory creation
    created,        \* objects the runtime has handed out, by kind
    released,       \* objects get_d3d9_device has released, by kind
    frames,         \* the locals of each of two concurrent invocations
    writers,        \* history: per window slot, the invocations that wrote it
    driver          \* what the runtime and the build answered so far

\* the account of the objects, kept across invocations
ledger == <<invocation, passed, created, released>>

vars == <<pc, curPid, wins, idx, cont, hwnd, cbCalls, window, d3d9,
          factoryCalls, present_params, d3d9_device, calls, result,
          invocation, passed, created, released, frames, writers, driver>>

\* the state of the concurrent invocations
cvars == <<frames, writers, driver>>

\* the state of the invocation followed alone
svars == <<pc, idx, cont, hwnd, cbCalls, window, d3d9, factoryCalls,
           present_params, d3d9_device, calls, result,
           invocation, passed, created, released>>

(***************************************************************************)
(* D3D9GrabError and the Result of get_d3d9_device.                        *)
(***************************************************************************)
Pending == [kind |-> "Pending", val |-> 0]
Ok(dev) == [kind |-> "Ok", val |-> dev]
AsMutError == [kind |-> "AsMutError", val |-> 0]
CreateDeviceError(code) == [kind |-> "CreateDeviceError", val |-> code]
D3DCreate9Null == [kind |-> "D3DCreate9Null", val |-> 0]
GetProcessWindowFailed == [kind |-> "GetProcessWindowFailed", val |-> 0]

(***************************************************************************)
(* get_process_window                                                      *)
(***************************************************************************)
\* variant: the callback captures the window and lets the enumeration go on
enum_windows_callback_continue(h, wnd_proc_id, slot) ==
    IF curPid # wnd_proc_id
    THEN [ret |-> WIN_TRUE, slot |-> slot]
    ELSE [ret |-> WIN_TRUE, slot |-> h]

\* variant: the callback captures the window without looking at its owner
enum_windows_callback_any(h, wnd_proc_id, slot) ==
    [ret |-> WIN_FALSE, slot |-> h]

\* the callback: wnd_proc_id is what GetWindowThreadProcessId stored for the
\* window; slot is *(l_param as *mut HWND).  Returns the BOOL and the slot.
enum_windows_callback(h, wnd_proc_id, slot) ==
    IF curPid # wnd_proc_id
    THEN [ret |-> WIN_TRUE, slot |-> slot]
    ELSE [ret |-> WIN_FALSE, slot |-> h]

\* variant: the null test on hwnd is missing
OptionOfHwnd_unchecked(h) == [some |-> TRUE, hwnd |-> h]

\* `if hwnd.is_null() { None } else { Some(hwnd) }`
OptionOfHwnd(h) ==
    IF h = Null THEN [some |-> FALSE, hwnd |-> Null]
    ELSE [some |-> TRUE, hwnd |-> h]

NoWindow == [some |-> FALSE, hwnd |-> Null]

(***************************************************************************)
(* get_d3d9_device                                                         *)
(***************************************************************************)
\* the initial D3DPRESENT_PARAMETERS
InitialPresentParams(w) ==
    [BackBufferWidth |-> 0,
     BackBufferHeight |-> 0,
     BackBufferFormat |-> 0,
     BackBufferCount |-> 0,
     MultiSampleType |-> 0,
     MultiSampleQuality |-> 0,
     SwapEffect |-> D3DSWAPEFFECT_DISCARD,
     hDeviceWindow |-> w,
     Windowed |-> WIN_FALSE,
     EnableAutoDepthStencil |-> 0,
     AutoDepthStencilFormat |-> 0,
     Flags |-> 0,
     FullScreen_RefreshRateInHz |-> 0,
     PresentationInterval |-> 0]

NoParams == InitialPresentParams(Null)

\* variant: the flag is left as it was
Not32_same(x) == x

\* `!` on BOOL (i32) is the bitwise complement
Not32(x) == -x - 1

\* variant: the null test on the factory is missing
FactoryIsNull_never(f) == FALSE

\* `d3d9.is_null()`
FactoryIsNull(f) == f = Null

\* The runtime's CreateDevice, given the parameters and the device slot it
\* is pointed at: the result code, and what it leaves in both.  It may fill
\* in the back-buffer fields of the parameters (they are in/out), on failure
\* too; it stores a device pointer when it reports success.
PresentWrites(pp) ==
    {pp,
     [pp EXCEPT !.BackBufferCount = 1],
     [pp EXCEPT !.BackBufferWidth = 640, !.BackBufferHeight = 480,
                !.BackBufferFormat = 22]}

CreateDevice(pp, slot) ==
    {[ret |-> D3D_OK, pp |-> q, dev |-> d] :
        q \in PresentWrites(pp), d \in DevicePtrs}
    \cup
    {[ret |-> c, pp |-> q, dev |-> slot] :
        q \in PresentWrites(pp), c \in FailCodes}

\* the record kept of one CreateDevice call
CallRecord(pp, out) ==
    [Adapter |-> D3DADAPTER_DEFAULT,
     DeviceType |-> D3DDEVTYPE_HAL,
     hFocusWindow |-> pp.hDeviceWindow,
     BehaviorFlags |-> D3DCREATE_SOFTWARE_VERTEXPROCESSING,
     pp |-> pp,
     ret |-> out.ret,
     dev |-> out.dev]

\* variant: the error carries the outer result_device_err
FallbackError_outer(first_err, second_err) == CreateDeviceError(first_err)

\* the error of the fallback branch: the inner result_device_err
FallbackError(first_err, second_err) == CreateDeviceError(second_err)

\* `d3d9_device` is an immutable binding that CreateDevice writes through a
\* pointer made from a shared reference: the read at the final match may
\* see the stored pointer, or the null the binding was initialised with.
ReadDevice(mem) == {mem, Null}

\* variant: the factory is released before a return that follows its creation
ReleasedAtReturn_factory(f, dev) == [factories |-> 1, devices |-> 0]

\* the Release calls made on a return path that follows factory creation:
\* the routine makes none, neither on the factory nor on a device
ReleasedAtReturn(f, dev) == [factories |-> 0, devices |-> 0]

\* the account after a CreateDevice call: a device stored on success is one
\* more object handed out
AfterCreateDevice(acc, out) ==
    [acc EXCEPT !.devices =
        IF out.ret = 0 /\ out.dev # Null THEN @ + 1 ELSE @]

\* the account of released objects after a return
AfterReturn(acc, f, dev) ==
    [factories |-> acc.factories + ReleasedAtReturn(f, dev).factories,
     devices |-> acc.devices + ReleasedAtReturn(f, dev).devices]

\* variant: the pointer is returned without the null test
as_mut_unchecked(p) == Ok(p)

\* `match d3d9_device.as_mut()`
as_mut(p) == IF p = Null THEN AsMutError ELSE Ok(p)

(***************************************************************************)
(* Two invocations at once, from two threads of the process.               *)
(***************************************************************************)
Threads == {1, 2}

\* the locals of get_process_window and get_d3d9_device at entry
InitialFrame ==
    [pc |-> "Enum", idx |-> 1, cont |-> WIN_TRUE, hwnd |-> Null,
     window |-> NoWindow, d3d9 |-> Null, present_params |-> NoParams,
     d3d9_device |-> Null, calls |-> 0, result |-> Pending]

\* variant: the callback's slot is one static shared by all invocations
SlotOf_static(t) == 1

\* `&mut hwnd as *mut HWND as LPARAM`: the slot the callback of invocation t
\* is given is the local of that invocation
SlotOf(t) == t

\* The answers of the environment, the same for both invocations: the
\* factory pointer, the outcome of the first and of the second CreateDevice,
\* and whether the build reads d3d9_device as the null it was bound to.
\* An answer is fixed when the first invocation asks for it.
NoOutcome == [ret |-> 0, pp |-> NoParams, dev |-> Null]
NoAnswers ==
    [fset |-> FALSE, f |-> Null,
     set1 |-> FALSE, out1 |-> NoOutcome,
     set2 |-> FALSE, out2 |-> NoOutcome,
     rset |-> FALSE, fold |-> FALSE]

FactoryAnswers == IF driver.fset THEN {driver.f} ELSE FactoryPtrs
FirstAnswers(pp, slot) ==
    IF driver.set1 THEN {driver.out1} ELSE CreateDevice(pp, slot)
SecondAnswers(pp, slot) ==
    IF driver.set2 THEN {driver.out2} ELSE CreateDevice(pp, slot)
FoldAnswers == IF driver.rset THEN {driver.fold} ELSE BOOLEAN

-----------------------------------------------------------------------------
Init ==
    /\ pc = "Enum"
    /\ curPid \in 1..MaxPid
    /\ wins \in WindowLists
    /\ idx = 1
    /\ cont = WIN_TRUE
    /\ hwnd = Null
    /\ cbCalls = <<>>
    /\ window = NoWindow
    /\ d3d9 = Null
    /\ factoryCalls = 0
    /\ present_params = NoParams
    /\ d3d9_device = Null
    /\ calls = <<>>
    /\ result = Pending
    /\ invocation = 1
    /\ passed = 0
    /\ created = [factories |-> 0, devices |-> 0]
    /\ released = [factories |-> 0, devices |-> 0]
    /\ frames = [t \in Threads |-> InitialFrame]
    /\ writers = [t \in Threads |-> {}]
    /\ driver = NoAnswers

\* EnumWindows hands the next window to the callback
EnumCallback ==
    /\ pc = "Enum"
    /\ cont # WIN_FALSE
    /\ idx <= Len(wins)
    /\ LET r == enum_windows_callback(idx, wins[idx], hwnd) IN
        /\ hwnd' = r.slot
        /\ cont' = r.ret
    /\ cbCalls' = Append(cbCalls, idx)
    /\ idx' = idx + 1
    /\ UNCHANGED <<pc, curPid, wins, window, d3d9, factoryCalls,
                   present_params, d3d9_device, calls, result>>
    /\ UNCHANGED ledger
    /\ UNCHANGED cvars

\* EnumWindows returns, get_process_window returns, get_d3d9_device matches
EnumReturn ==
    /\ pc = "Enum"
    /\ (cont = WIN_FALSE \/ idx > Len(wins))
    /\ LET w == OptionOfHwnd(hwnd) IN
        IF w.some
        THEN /\ window' = w
             /\ pc' = "WindowResolved"
             /\ result' = result
        ELSE /\ window' = w
             /\ pc' = "Done"
             /\ result' = GetProcessWindowFailed
    /\ UNCHANGED <<curPid, wins, idx, cont, hwnd, cbCalls, d3d9, factoryCalls,
                   present_params, d3d9_device, calls>>
    /\ UNCHANGED ledger
    /\ UNCHANGED cvars

\* Direct3DCreate9, the null check, and the locals built before the first
\* CreateDevice
CreateFactory ==
    /\ pc = "WindowResolved"
    /\ \E f \in FactoryPtrs :
        /\ d3d9' = f
        /\ factoryCalls' = factoryCalls + 1
        /\ created' = [created EXCEPT !.factories =
                            IF f # Null THEN @ + 1 ELSE @]
        /\ IF FactoryIsNull(f)
           THEN /\ pc' = "Done"
                /\ result' = D3DCreate9Null
                /\ UNCHANGED <<present_params, d3d9_device>>
           ELSE /\ pc' = "FactoryCreated"
                /\ present_params' = InitialPresentParams(window.hwnd)
                /\ d3d9_device' = Null
                /\ result' = result
    /\ UNCHANGED <<curPid, wins, idx, cont, hwnd, cbCalls, window, calls>>
    /\ UNCHANGED <<invocation, passed, released>>
    /\ UNCHANGED cvars

\* variant: the fallback is entered whatever the first result code is
FirstAttempt_always_retry ==
    /\ pc = "FactoryCreated"
    /\ \E out \in CreateDevice(present_params, d3d9_device) :
        /\ calls' = Append(calls, CallRecord(present_params, out))
        /\ d3d9_device' = out.dev
        /\ created' = AfterCreateDevice(created, out)
        /\ present_params' =
              [out.pp EXCEPT !.Windowed = Not32(out.pp.Windowed)]
        /\ pc' = "Fallback"
    /\ UNCHANGED <<curPid, wins, idx, cont, hwnd, cbCalls, window, d3d9,
                   factoryCalls, result>>
    /\ UNCHANGED <<invocation, passed, released>>
    /\ UNCHANGED cvars

\* the first CreateDevice and the test of its result code, with the flip of
\* Windowed when it failed
FirstAttempt ==
    /\ pc = "FactoryCreated"
    /\ \E out \in CreateDevice(present_params, d3d9_device) :
        /\ calls' = Append(calls, CallRecord(present_params, out))
        /\ d3d9_device' = out.dev
        /\ created' = AfterCreateDevice(created, out)
        /\ IF out.ret # 0
           THEN /\ present_params' =
                      [out.pp EXCEPT !.Windowed = Not32(out.pp.Windowed)]
                /\ pc' = "Fallback"
           ELSE /\ present_params' = out.pp
                /\ pc' = "Validate"
    /\ UNCHANGED <<curPid, wins, idx, cont, hwnd, cbCalls, window, d3d9,
                   factoryCalls, result>>
    /\ UNCHANGED <<invocation, passed, released>>
    /\ UNCHANGED cvars

\* the second CreateDevice and the test of its result code
FallbackAttempt ==
    /\ pc = "Fallback"
    /\ \E out \in CreateDevice(present_params, d3d9_device) :
        /\ calls' = Append(calls, CallRecord(present_params, out))
        /\ d3d9_device' = out.dev
        /\ present_params' = out.pp
        /\ created' = AfterCreateDevice(created, out)
        /\ IF out.ret # 0
           THEN /\ pc' = "Done"
                /\ result' = FallbackError(calls[1].ret, out.ret)
                /\ passed' = passed + 1
                /\ released' = AfterReturn(released, d3d9, out.dev)
           ELSE /\ pc' = "Validate"
                /\ result' = result
                /\ UNCHANGED <<passed, released>>
    /\ UNCHANGED <<curPid, wins, idx, cont, hwnd, cbCalls, window, d3d9,
                   factoryCalls, invocation>>
    /\ UNCHANGED cvars

\* the final match on d3d9_device.as_mut()
Validate ==
    /\ pc = "Validate"
    /\ \E p \in ReadDevice(d3d9_device) :
        result' = as_mut(p)
    /\ pc' = "Done"
    /\ passed' = passed + 1
    /\ released' = AfterReturn(released, d3d9, d3d9_device)
    /\ UNCHANGED <<curPid, wins, idx, cont, hwnd, cbCalls, window, d3d9,
                   factoryCalls, present_params, d3d9_device, calls>>
    /\ UNCHANGED <<invocation, created>>
    /\ UNCHANGED cvars

\* the caller invokes get_d3d9_device once more: the locals of the returned
\* invocation are gone, the objects it left behind are not
Reinvoke ==
    /\ pc = "Done"
    /\ invocation < MaxInvocations
    /\ invocation' = invocation + 1
    /\ pc' = "Enum"
    /\ idx' = 1
    /\ cont' = WIN_TRUE
    /\ hwnd' = Null
    /\ cbCalls' = <<>>
    /\ window' = NoWindow
    /\ d3d9' = Null
    /\ factoryCalls' = 0
    /\ present_params' = NoParams
    /\ d3d9_device' = Null
    /\ calls' = <<>>
    /\ result' = Pending
    /\ UNCHANGED <<curPid, wins, passed, created, released>>
    /\ UNCHANGED cvars

Next ==
    \/ EnumCallback
    \/ EnumReturn
    \/ CreateFactory
    \/ FirstAttempt
    \/ FallbackAttempt
    \/ Validate

Spec == Init /\ [][Next]_vars

\* every step is one blocking call that returns: a started invocation is not
\* left half-way
FairSpec == Spec /\ WF_vars(Next)

\* get_d3d9_device invoked repeatedly, one invocation after the other
NextRepeat ==
    \/ Next
    \/ Reinvoke

RepeatSpec == Init /\ [][NextRepeat]_vars

-----------------------------------------------------------------------------
(***************************************************************************)
(* The steps of get_d3d9_device, taken by invocation t of two.             *)
(***************************************************************************)
TEnumCallback(t) ==
    LET fr == frames[t]
        s == SlotOf(t) IN
    /\ fr.pc = "Enum"
    /\ fr.cont # WIN_FALSE
    /\ fr.idx <= Len(wins)
    /\ LET r == enum_windows_callback(fr.idx, wins[fr.idx], frames[s].hwnd) IN
        /\ frames' = [frames EXCEPT ![s].hwnd = r.slot,
                                    ![t].cont = r.ret,
                                    ![t].idx = fr.idx + 1]
        /\ writers' = IF r.ret = WIN_FALSE
                      THEN [writers EXCEPT ![s] = @ \cup {t}]
                      ELSE writers
    /\ UNCHANGED <<driver, curPid, wins>>
    /\ UNCHANGED svars

TEnumReturn(t) ==
    LET fr == frames[t] IN
    /\ fr.pc = "Enum"
    /\ (fr.cont = WIN_FALSE \/ fr.idx > Len(wins))
    /\ LET w == OptionOfHwnd(fr.hwnd) IN
        frames' = [frames EXCEPT
            ![t].window = w,
            ![t].pc = IF w.some THEN "WindowResolved" ELSE "Done",
            ![t].result = IF w.some THEN fr.result
                          ELSE GetProcessWindowFailed]
    /\ UNCHANGED <<writers, driver, curPid, wins>>
    /\ UNCHANGED svars

TCreateFactory(t) ==
    LET fr == frames[t] IN
    /\ fr.pc = "WindowResolved"
    /\ \E f \in FactoryAnswers :
        /\ driver' = [driver EXCEPT !.fset = TRUE, !.f = f]
        /\ frames' = [frames EXCEPT ![t] =
            IF FactoryIsNull(f)
            THEN [fr EXCEPT !.d3d9 = f, !.pc = "Done",
                            !.result = D3DCreate9Null]
            ELSE [fr EXCEPT !.d3d9 = f, !.pc = "FactoryCreated",
                            !.present_params =
                                InitialPresentParams(fr.window.hwnd),
                            !.d3d9_device = Null]]
    /\ UNCHANGED <<writers, curPid, wins>>
    /\ UNCHANGED svars

TFirstAttempt(t) ==
    LET fr == frames[t] IN
    /\ fr.pc = "FactoryCreated"
    /\ \E out \in FirstAnswers(fr.present_params, fr.d3d9_device) :
        /\ driver' = [driver EXCEPT !.set1 = TRUE, !.out1 = out]
        /\ frames' = [frames EXCEPT ![t] =
            IF out.ret # 0
            THEN [fr EXCEPT !.calls = 1, !.d3d9_device = out.dev,
                            !.present_params =
                                [out.pp EXCEPT !.Windowed =
                                    Not32(out.pp.Windowed)],
                            !.pc = "Fallback"]
            ELSE [fr EXCEPT !.calls = 1, !.d3d9_device = out.dev,
                            !.present_params = out.pp,
                            !.pc = "Validate"]]
    /\ UNCHANGED <<writers, curPid, wins>>
    /\ UNCHANGED svars

TFallbackAttempt(t) ==
    LET fr == frames[t] IN
    /\ fr.pc = "Fallback"
    /\ \E out \in SecondAnswers(fr.present_params, fr.d3d9_device) :
        /\ driver' = [driver EXCEPT !.set2 = TRUE, !.out2 = out]
        /\ frames' = [frames EXCEPT ![t] =
            IF out.ret # 0
            THEN [fr EXCEPT !.calls = 2, !.d3d9_device = out.dev,
                            !.present_params = out.pp,
                            !.pc = "Done",
                            !.result = FallbackError(driver.out1.ret, out.ret)]
            ELSE [fr EXCEPT !.calls = 2, !.d3d9_device = out.dev,
                            !.present_params = out.pp,
                            !.pc = "Validate"]]
    /\ UNCHANGED <<writers, curPid, wins>>
    /\ UNCHANGED svars

TValidate(t) ==
    LET fr == frames[t] IN
    /\ fr.pc = "Validate"
    /\ \E fold \in FoldAnswers :
        LET p == IF fold THEN Null ELSE fr.d3d9_device IN
        /\ p \in ReadDevice(fr.d3d9_device)
        /\ driver' = [driver EXCEPT !.rset = TRUE, !.fold = fold]
        /\ frames' = [frames EXCEPT ![t].result = as_mut(p),
                                    ![t].pc = "Done"]
    /\ UNCHANGED <<writers, curPid, wins>>
    /\ UNCHANGED svars

ConcNext ==
    \E t \in Threads :
        \/ TEnumCallback(t)
        \/ TEnumReturn(t)
        \/ TCreateFactory(t)
        \/ TFirstAttempt(t)
        \/ TFallbackAttempt(t)
        \/ TValidate(t)

ConcSpec == Init /\ [][ConcNext]_vars

-----------------------------------------------------------------------------
(***************************************************************************)
(* Vocabulary of the properties.                                           *)
(***************************************************************************)
\* the windows of the calling process, by handle
OwnedWindows == {i \in 1..Len(wins) : wins[i] = curPid}
\* the first of them in enumeration order (Null when there is none)
FirstOwned ==
    IF OwnedWindows = {} THEN Null
    ELSE CHOOSE i \in OwnedWindows : \A j \in OwnedWindows : i <= j
Returned == pc = "Done"
NumCalls == Len(calls)
LastCall == calls[NumCalls]
\* BOOL as a truth value
Truth(b) == b # 0
\* a parameter block with the windowed flag masked out
SansWindowed(pp) == [pp EXCEPT !.Windowed = 0]

(***************************************************************************)
(* C1 (P1, no-window failure): when the calling process owns no top-level  *)
(* window, neither Direct3DCreate9 nor CreateDevice is ever called, and    *)
(* the invocation returns Err(GetProcessWindowFailed).                     *)
(***************************************************************************)
C1_NoWindowFailure ==
    OwnedWindows = {} =>
        /\ factoryCalls = 0
        /\ NumCalls = 0
        /\ pc \in {"Enum", "Done"}
        /\ Returned => result = GetProcessWindowFailed

C1_Witness ==
    /\ Returned
    /\ OwnedWindows = {}
    /\ Len(wins) = MaxWindows
    /\ Len(cbCalls) = MaxWindows
    /\ result = GetProcessWindowFailed

(***************************************************************************)
(* C2 (P2, factory-null short-circuit): when a window was resolved and     *)
(* Direct3DCreate9 returned null, the invocation has returned              *)
(* Err(D3DCreate9Null) and no CreateDevice call is made.                   *)
(***************************************************************************)
C2_FactoryNullShortCircuit ==
    (factoryCalls > 0 /\ d3d9 = Null) =>
        /\ Returned
        /\ result = D3DCreate9Null
        /\ NumCalls = 0

C2_Witness ==
    /\ Returned
    /\ window.some
    /\ factoryCalls = 1
    /\ d3d9 = Null
    /\ result = D3DCreate9Null

(***************************************************************************)
(* C3 (P3, fallback invariant), as stated: when the first CreateDevice     *)
(* failed, exactly one retry is made, and the parameters the retry         *)
(* receives differ from the parameters the first call received only in     *)
(* Windowed, which is the boolean negation of the first value.             *)
(***************************************************************************)
C3_FallbackInvariant ==
    (pc \in {"Validate", "Done"} /\ NumCalls >= 1 /\ calls[1].ret # 0) =>
        /\ NumCalls = 2
        /\ SansWindowed(calls[2].pp) = SansWindowed(calls[1].pp)
        /\ Truth(calls[2].pp.Windowed) = ~Truth(calls[1].pp.Windowed)

(***************************************************************************)
(* C4 (P4, final-error-only): when both CreateDevice calls failed, the     *)
(* invocation returns Err(CreateDeviceError(c2)) with c2 the result code   *)
(* of the second call.                                                     *)
(***************************************************************************)
C4_FinalErrorOnly ==
    (NumCalls = 2 /\ calls[2].ret # 0) =>
        /\ calls[1].ret # 0
        /\ Returned
        /\ result = CreateDeviceError(calls[2].ret)

C4_Witness ==
    /\ Returned
    /\ NumCalls = 2
    /\ calls[1].ret = -2005530516
    /\ calls[2].ret = -2005530520
    /\ result = CreateDeviceError(-2005530520)

(***************************************************************************)
(* C5 (P5, success short-circuit), as stated: when the first CreateDevice  *)
(* reported success and stored a non-null device, no second call is made   *)
(* and the invocation returns Ok of the device the first call stored.      *)
(***************************************************************************)
C5_SuccessShortCircuit ==
    (NumCalls >= 1 /\ calls[1].ret = 0 /\ calls[1].dev # Null) =>
        /\ NumCalls = 1
        /\ Returned => result = Ok(calls[1].dev)

(***************************************************************************)
(* C6 (P6, validity gate): when the CreateDevice call that reported        *)
(* success left the device pointer null, the invocation returns            *)
(* Err(AsMutError); a first call that did so is not followed by the        *)
(* fallback; and every Ok carries a non-null device.                       *)
(***************************************************************************)
C6_ValidityGate ==
    /\ (NumCalls >= 1 /\ calls[1].ret = 0 /\ calls[1].dev = Null) =>
            NumCalls = 1
    /\ (Returned /\ NumCalls >= 1 /\ LastCall.ret = 0 /\ LastCall.dev = Null) =>
            result = AsMutError
    /\ (Returned /\ result.kind = "Ok") => result.val # Null

C6_Witness ==
    /\ Returned
    /\ NumCalls = 2
    /\ calls[2].ret = 0
    /\ calls[2].dev = Null
    /\ result = AsMutError

(***************************************************************************)
(* C7 (fallback success), as stated: when the first CreateDevice failed    *)
(* and the second reported success with a non-null device, the invocation  *)
(* returns Ok of the device the second call stored.                        *)
(***************************************************************************)
C7_FallbackSuccess ==
    (Returned /\ NumCalls = 2 /\ calls[1].ret # 0
        /\ calls[2].ret = 0 /\ calls[2].dev # Null) =>
        result = Ok(calls[2].dev)

(***************************************************************************)
(* C8 (closed, total outcome set), as stated: a returned invocation has    *)
(* one of the five outcomes, an Ok carries a non-null device, and each     *)
(* error is returned exactly under its documented condition.               *)
(***************************************************************************)
C8_ClosedOutcomes ==
    Returned =>
        /\ result.kind \in {"Ok", "GetProcessWindowFailed", "D3DCreate9Null",
                            "CreateDeviceError", "AsMutError"}
        /\ result.kind = "Ok" => result.val # Null
        /\ result.kind = "GetProcessWindowFailed" <=> OwnedWindows = {}
        /\ result.kind = "D3DCreate9Null" <=>
                (OwnedWindows # {} /\ factoryCalls > 0 /\ d3d9 = Null)
        /\ result.kind = "CreateDeviceError" <=>
                (NumCalls = 2 /\ calls[1].ret # 0 /\ calls[2].ret # 0)
        /\ result.kind = "AsMutError" <=>
                (NumCalls >= 1 /\ LastCall.ret = 0 /\ LastCall.dev = Null)

(***************************************************************************)
(* C9 (first match and short-circuit): the callback is invoked for the     *)
(* windows in enumeration order up to the first one owned by the calling   *)
(* process and for none after it; the captured handle is that first        *)
(* window's and is never another one; get_process_window returns it.       *)
(***************************************************************************)
C9_FirstMatchShortCircuit ==
    /\ \A k \in 1..Len(cbCalls) : cbCalls[k] = k
    /\ OwnedWindows # {} => Len(cbCalls) <= FirstOwned
    /\ hwnd # Null => (hwnd = FirstOwned /\ cont = WIN_FALSE)
    /\ (pc # "Enum" /\ OwnedWindows # {}) =>
            (window.some /\ window.hwnd = FirstOwned)

C9_Witness ==
    /\ pc # "Enum"
    /\ Cardinality(OwnedWindows) >= 2
    /\ FirstOwned > 1
    /\ Len(cbCalls) = FirstOwned
    /\ window.hwnd = FirstOwned

(***************************************************************************)
(* C10 (window ownership): get_process_window returns None exactly when no *)
(* enumerated window is owned by the calling process, a returned handle is *)
(* owned by it, and every CreateDevice call has that handle both as focus  *)
(* window and as device window.                                            *)
(***************************************************************************)
C10_WindowOwnership ==
    /\ pc # "Enum" =>
        /\ ~window.some <=> OwnedWindows = {}
        /\ window.some => window.hwnd \in OwnedWindows
    /\ \A k \in 1..NumCalls :
        /\ calls[k].hFocusWindow = window.hwnd
        /\ calls[k].pp.hDeviceWindow = window.hwnd
        /\ window.hwnd \in OwnedWindows

C10_Witness ==
    /\ NumCalls = 2
    /\ \E i \in 1..Len(wins) : i < window.hwnd /\ wins[i] \notin {0, curPid}
    /\ calls[2].hFocusWindow \in OwnedWindows
    /\ calls[2].pp.hDeviceWindow = calls[1].hFocusWindow

(***************************************************************************)
(* C11 (windowed flag per attempt): the first CreateDevice call is made    *)
(* with Windowed = FALSE (0); the fallback call, when made, with a true    *)
(* Windowed, the i32 complement of the first value (-1, all bits set);     *)
(* adapter, device type, window and behaviour flags are the same in both:  *)
(* default adapter, HAL, the resolved window, software vertex processing.  *)
(***************************************************************************)
C11_WindowedPerAttempt ==
    /\ NumCalls >= 1 => calls[1].pp.Windowed = 0
    /\ NumCalls = 2 =>
        /\ calls[2].pp.Windowed = -1
        /\ Truth(calls[2].pp.Windowed)
    /\ \A k \in 1..NumCalls :
        /\ calls[k].Adapter = calls[1].Adapter
        /\ calls[k].DeviceType = calls[1].DeviceType
        /\ calls[k].hFocusWindow = calls[1].hFocusWindow
        /\ calls[k].BehaviorFlags = calls[1].BehaviorFlags
        /\ calls[k].Adapter = 0
        /\ calls[k].DeviceType = 1
        /\ calls[k].BehaviorFlags = 32
        /\ calls[k].hFocusWindow = window.hwnd

C11_Witness ==
    /\ NumCalls = 2
    /\ calls[1].pp.Windowed = 0
    /\ calls[2].pp.Windowed = -1
    /\ calls[1].pp.BackBufferCount # calls[2].pp.BackBufferCount

(***************************************************************************)
(* C12 (bounded, loop-free acquisition): every invocation returns; the     *)
(* window resolver runs once and is over before Direct3DCreate9 is called; *)
(* Direct3DCreate9 is called at most once and before any CreateDevice; at  *)
(* most two CreateDevice calls are made, the second only after the first   *)
(* returned a non-zero code.                                               *)
(***************************************************************************)
C12_Order ==
    /\ Len(cbCalls) <= Len(wins)
    /\ factoryCalls <= 1
    /\ factoryCalls > 0 => (pc # "Enum" /\ window.some)
    /\ NumCalls > 0 => (factoryCalls = 1 /\ d3d9 # Null)
    /\ NumCalls <= 2
    /\ NumCalls = 2 => calls[1].ret # 0

C12_BoundedAcquisition ==
    /\ []C12_Order
    /\ [][pc # "Enum" => pc' # "Enum"]_vars
    /\ <>Returned

C12_Witness ==
    /\ Returned
    /\ Len(cbCalls) >= 2
    /\ factoryCalls = 1
    /\ NumCalls = 2
    /\ calls[1].ret # 0

(***************************************************************************)
(* C14 (factory never released): get_d3d9_device releases nothing it       *)
(* creates.  On every return that follows a successful factory creation    *)
(* (Ok, Err(CreateDeviceError), Err(AsMutError)) that factory is unreleased;*)
(* after N invocations that passed factory creation, N unreleased          *)
(* factories exist; no stored device is released either.                   *)
(***************************************************************************)
LiveFactories == created.factories - released.factories
LiveDevices == created.devices - released.devices

C14_NothingReleased ==
    /\ released.factories = 0
    /\ released.devices = 0
    /\ LiveDevices = created.devices
    /\ Returned => LiveFactories = passed
    /\ (Returned /\ result.kind \in {"Ok", "CreateDeviceError", "AsMutError"})
            => (d3d9 # Null /\ LiveFactories >= 1)

C14_Witness ==
    /\ Returned
    /\ invocation = MaxInvocations
    /\ passed = MaxInvocations
    /\ LiveFactories = MaxInvocations
    /\ LiveDevices >= 1
    /\ result.kind = "CreateDeviceError"

(***************************************************************************)
(* C13 (independence of invocations): of two invocations run one after the *)
(* other or interleaved, against the same windows and the same answers of  *)
(* the runtime, each resolves the window and returns the result it would   *)
(* alone; the enumeration callback of one never writes the window slot of  *)
(* the other.                                                              *)
(***************************************************************************)
\* what get_process_window returns to an invocation that runs alone
AloneWindow ==
    IF OwnedWindows = {} THEN [some |-> FALSE, hwnd |-> Null]
    ELSE [some |-> TRUE, hwnd |-> FirstOwned]

\* what get_d3d9_device returns to an invocation that runs alone, given the
\* answers of the environment
AloneResult ==
    IF OwnedWindows = {} THEN GetProcessWindowFailed
    ELSE IF driver.f = Null THEN D3DCreate9Null
    ELSE IF driver.out1.ret # 0 /\ driver.out2.ret # 0
         THEN CreateDeviceError(driver.out2.ret)
    ELSE LET stored == IF driver.out1.ret = 0 THEN driver.out1.dev
                       ELSE driver.out2.dev
             read == IF driver.fold THEN Null ELSE stored IN
         IF read = Null THEN AsMutError ELSE Ok(read)

C13_Independence ==
    /\ \A u \in Threads : writers[u] \subseteq {u}
    /\ \A t \in Threads :
        /\ frames[t].pc # "Enum" => frames[t].window = AloneWindow
        /\ frames[t].pc = "Done" => frames[t].result = AloneResult
        /\ frames[t].pc \in {"FactoryCreated", "Fallback", "Validate"} =>
                frames[t].present_params.hDeviceWindow = FirstOwned

C13_Witness ==
    /\ frames[1].pc = "Fallback"
    /\ frames[2].pc = "Done"
    /\ frames[2].result.kind = "Ok"
    /\ writers = [t \in Threads |-> {t}]
    /\ FirstOwned > 1

====
